---- MODULE Spec2Model ----
(***************************************************************************)
(* Model of utils/make_release.py: the release sequence of _make_release,  *)
(* the exits through _print_error_and_exit (SystemExit), the except        *)
(* handler and the SIGINT handler of make_release, and _rollback.          *)
(*                                                                         *)
(* Every external command (git, file write, builder, HTTP request) is one  *)
(* atomic action.  pc names the operation the main flow is about to run;   *)
(* a SIGINT can arrive before any of them.                                 *)
(*                                                                         *)
(* A step's command may fail (an Exception) wherever the code runs one.    *)
(* The commands of _rollback itself succeed, except git tag -d, which      *)
(* fails exactly when the tag is missing (the error _rollback ignores).    *)
(***************************************************************************)
EXTENDS Naturals, Sequences, FiniteSets, TLC

\* ------------------------------------------------------------------ bounds

\* Number of SIGINTs delivered in one run.
MaxInterrupts == 1

\* ------------------------------------------------------- program constants

PROMPT_NO_EXIT_STATUS == 2

FILE_EXTENSIONS_AND_MIME_TYPES == {"zip", "exe"}

\* Version strings: pg.config.PLUGIN_VERSION, the result of increment, and a
\* version released earlier (always among the tags).
CurrentVersion == "1.2.0"
NextVersion == "1.3.0"
OlderVersion == "1.1.0"
None == "None"

NewReleaseDate == "November 03, 2026"

\* ------------------------------------------------------------ file contents

\* CHANGELOG.md: the first header (style "hash": "# title", style
\* "underline": "title" over a line of underline "=" characters, style
\* "none": no first-level header) and the raw text of its section.
Changelogs ==
  { [style |-> "hash", title |-> "Unreleased", underline |-> 0,
     notes |-> " Fixed bugs. "],
    [style |-> "underline", title |-> "Unreleased", underline |-> 10,
     notes |-> " Fixed bugs. "],
    [style |-> "hash", title |-> OlderVersion, underline |-> 0,
     notes |-> " Old notes. "],
    [style |-> "none", title |-> None, underline |-> 0, notes |-> ""] }

\* str.strip() on the section texts above.
strip(s) ==
  CASE s = " Fixed bugs. " -> "Fixed bugs."
    [] s = " Old notes. " -> "Old notes."
    [] OTHER -> s

\* A line of config.py: c.<name> = "<value>" when quoted, some other form of
\* assignment (which the entry pattern does not match) when not.
ConfigLine(n, v, q) == [name |-> n, value |-> v, quoted |-> q]

Configs ==
  { << ConfigLine("PLUGIN_NAME", "export_layers", TRUE),
       ConfigLine("PLUGIN_VERSION", CurrentVersion, TRUE),
       ConfigLine("PLUGIN_VERSION_RELEASE_DATE", "June 01, 2019", TRUE),
       ConfigLine("PLUGIN_VERSION", "0.0.1", TRUE) >>,
    << ConfigLine("PLUGIN_VERSION_RELEASE_DATE", "June 01, 2019", TRUE),
       ConfigLine("PLUGIN_VERSION", CurrentVersion, FALSE) >>,
    << ConfigLine("PLUGIN_NAME", "export_layers", TRUE) >> }

\* ---------------------------------------------------------------- variables

VARIABLES
  dry_run, force, interactive,        \* options of the run (read-only)
  new_version,                        \* release_metadata.new_version
  new_version_release_notes,          \* release_metadata.new_version_release_notes
  last_commit_id_before_release,      \* checkpoint of the main repository
  last_gh_pages_commit_id_before_release, \* checkpoint of the gh-pages repository
  released_versions,                  \* tag names listed at construction
  main_tree, main_index, main_head,   \* main repository
  tags,                               \* tags of the main repository
  docs_tree, docs_index, docs_head,   \* gh-pages repository
  installers_dir,                     \* INSTALLERS_OUTPUT_DIRPATH
  remote,                             \* remote repository and GitHub
  upload_pos,                         \* position of the upload loop
  response,                           \* what the user typed at the prompt
  pc,                                 \* next operation of _make_release, or "except"
  rb,                                 \* next operation of the running _rollback
  in_handler,                         \* the running _rollback was called by handle_sigint
  interrupts,                         \* SIGINTs delivered
  terminated, exit_status, cause,     \* process exit
  start,                              \* working trees, tags and output directory
                                      \* the run started from
  log                                 \* operations performed, in order

vars == << dry_run, force, interactive, new_version,
           new_version_release_notes, last_commit_id_before_release,
           last_gh_pages_commit_id_before_release, released_versions,
           main_tree, main_index, main_head, tags,
           docs_tree, docs_index, docs_head, installers_dir, remote,
           upload_pos, response, pc, rb, in_handler, interrupts,
           terminated, exit_status, cause, start, log >>

\* Groups for UNCHANGED.
options == << dry_run, force, interactive,
              last_commit_id_before_release,
              last_gh_pages_commit_id_before_release, released_versions, start >>
main_repo == << main_tree, main_index, main_head >>
docs_repo == << docs_tree, docs_index, docs_head >>
process == << terminated, exit_status, cause >>
handler == << rb, in_handler, interrupts >>

\* ------------------------------------------------------------ initial state

\* The tree of the commit HEAD points at when the run starts.
BaseMainTree(changelog, config) ==
  [changelog |-> changelog, config |-> config, local |-> "clean", hook |-> FALSE]

BaseDocsTree == [pages |-> "old", local |-> "clean", hook |-> FALSE]

Commit(id, parent, msg, tree) ==
  [id |-> id, parent |-> parent, msg |-> msg, tree |-> tree]

OlderTag ==
  [name |-> OlderVersion, target |-> "older", msg |-> "Release 1.1.0"]

\* A tag named like the version this run will compute, left by an earlier
\* release.
StaleTag ==
  [name |-> NextVersion, target |-> "older", msg |-> "Release 1.3.0"]

NoRelease == [created |-> FALSE, tag |-> None, body |-> ""]

AbsentDir == [exists |-> FALSE, files |-> << >>]
Dir(files) == [exists |-> TRUE, files |-> files]

Init ==
  /\ dry_run \in BOOLEAN
  /\ force \in BOOLEAN
  /\ interactive \in BOOLEAN
  /\ new_version = None
  /\ new_version_release_notes = ""
  /\ \E changelog \in Changelogs, config \in Configs :
       LET tree == BaseMainTree(changelog, config) IN
       /\ main_head = Commit("base", "older", "Last commit", tree)
       /\ main_index = tree
       /\ \E local \in {"clean", "modified", "untracked"} :
            main_tree = [tree EXCEPT !.local = local]
  /\ docs_head = Commit("base", "older", "Last commit", BaseDocsTree)
  /\ docs_index = BaseDocsTree
  /\ \E local \in {"clean", "modified"} :
       docs_tree = [BaseDocsTree EXCEPT !.local = local]
  /\ tags \in { {OlderTag}, {OlderTag, StaleTag} }
  /\ released_versions = { t.name : t \in tags }
  /\ last_commit_id_before_release = main_head
  /\ last_gh_pages_commit_id_before_release = docs_head
  /\ installers_dir \in { AbsentDir, Dir(<< "old.zip" >>) }
  /\ remote = [main |-> main_head, docs |-> docs_head,
               tags |-> { t.name : t \in tags },
               release |-> NoRelease, assets |-> << >>]
  /\ upload_pos = 1
  /\ response = None
  /\ pc = "check_main"
  /\ rb = "none"
  /\ in_handler = FALSE
  /\ interrupts = 0
  /\ terminated = FALSE
  /\ exit_status = 0
  /\ cause = None
  /\ start = [main_tree |-> main_tree, docs_tree |-> docs_tree,
              tags |-> tags, installers_dir |-> installers_dir]
  /\ log = << >>

\* ------------------------------------------------------------- control flow

\* The main flow is about to run operation p of _make_release.
Running(p) == ~terminated /\ rb = "none" /\ pc = p

goto(next) == pc' = next /\ UNCHANGED << handler, process >>

\* Variant: the except clause catches SystemExit too (except BaseException),
\* so every exit goes through the rollback and ends with status 1.
print_error_and_exit_caught(kind, status) ==
  /\ pc' = "except"
  /\ rb' = "start"
  /\ cause' = kind
  /\ UNCHANGED << terminated, exit_status, in_handler, interrupts >>

\* sys.exit(exit_status) called inside the try block of make_release:
\* SystemExit is not an Exception, so "except Exception" does not catch it
\* and the process exits with the status given.
print_error_and_exit(kind, status) ==
  /\ terminated' = TRUE
  /\ exit_status' = status
  /\ cause' = kind
  /\ UNCHANGED << pc, handler >>

\* An Exception raised by a step: make_release's except clause prints the
\* traceback and calls _rollback.
raise(kind) ==
  /\ pc' = "except"
  /\ rb' = "start"
  /\ cause' = kind
  /\ UNCHANGED << terminated, exit_status, in_handler, interrupts >>

\* _make_release returned: the process ends with status 0.
exit_success ==
  /\ terminated' = TRUE
  /\ exit_status' = 0
  /\ UNCHANGED << pc, cause, handler >>

did(event) == log' = Append(log, event)

\* --------------------------------------------------------------------- git

has_active_branch_local_changes(tree, index, head) ==
  tree # head.tree \/ index # head.tree

\* git commit fails when there is nothing to commit; like every command it
\* may also fail for a reason of its own.
commit_may_fail(index, head) ==
  IF index = head.tree THEN {TRUE} ELSE BOOLEAN

\* Variant: a reset that leaves local changes in the working tree, as
\* git reset --mixed does.
reset_mixed_tree(tree, index, commit) ==
  [commit.tree EXCEPT !.local = tree.local]

\* git reset --hard: HEAD, index and tracked files become those of the
\* commit; files git does not track (neither staged nor committed) stay.
reset_hard_tree(tree, index, commit) ==
  IF tree.local = "untracked" /\ index.local # "untracked"
    THEN [commit.tree EXCEPT !.local = "untracked"]
    ELSE commit.tree

get_release_message_header(version) == "Release " \o version

\* ---------------------------------------------------- steps of _make_release

\* What stays as it is in a step that only reads.
nothing_written ==
  UNCHANGED << main_repo, docs_repo, tags, installers_dir, remote, upload_pos >>

context_kept ==
  UNCHANGED << options, new_version, new_version_release_notes, response >>

\* _check_branches_for_local_changes, the main repository: with force the
\* status command is not run at all.
check_main_local_changes ==
  /\ Running("check_main")
  /\ IF force
       THEN goto("check_docs")
       ELSE \E fails \in BOOLEAN :
              IF fails
                THEN raise("VersionControlCommandFailed")
                ELSE IF has_active_branch_local_changes(
                          main_tree, main_index, main_head)
                       THEN print_error_and_exit("DirtyWorkingTree", 1)
                       ELSE goto("check_docs")
  /\ nothing_written /\ context_kept /\ UNCHANGED log

\* Variant: force exempts the gh-pages repository as well.
check_gh_pages_local_changes_unless_forced ==
  /\ Running("check_docs")
  /\ IF force
       THEN goto("next_version")
       ELSE \E fails \in BOOLEAN :
              IF fails
                THEN raise("VersionControlCommandFailed")
                ELSE IF has_active_branch_local_changes(
                          docs_tree, docs_index, docs_head)
                       THEN print_error_and_exit("DirtyWorkingTree", 1)
                       ELSE goto("next_version")
  /\ nothing_written /\ context_kept /\ UNCHANGED log

\* _check_branches_for_local_changes, the gh-pages repository.
check_gh_pages_local_changes ==
  /\ Running("check_docs")
  /\ \E fails \in BOOLEAN :
       IF fails
         THEN raise("VersionControlCommandFailed")
         ELSE IF has_active_branch_local_changes(
                   docs_tree, docs_index, docs_head)
                THEN print_error_and_exit("DirtyWorkingTree", 1)
                ELSE goto("next_version")
  /\ nothing_written /\ context_kept /\ UNCHANGED log

\* What pg.version makes of current_version: Version.parse raises
\* InvalidVersionFormatError, increment raises ValueError, or both succeed.
VersionOutcomes == {"ok", "invalid_format", "increment_error"}

\* Variant: the new version is stored before the current one is validated.
get_next_version_stored_first ==
  /\ Running("next_version")
  /\ new_version' = NextVersion
  /\ \E version_outcome \in VersionOutcomes :
       CASE version_outcome = "invalid_format" ->
              print_error_and_exit("InvalidVersionFormat", 1)
         [] version_outcome = "increment_error" ->
              print_error_and_exit("VersionIncrementConflict", 1)
         [] OTHER ->
              goto("check_tag")
  /\ nothing_written
  /\ UNCHANGED << options, new_version_release_notes, response, log >>

\* release_metadata.new_version = _get_next_version(release_metadata)
get_next_version ==
  /\ Running("next_version")
  /\ \E version_outcome \in VersionOutcomes :
       CASE version_outcome = "invalid_format" ->
              /\ print_error_and_exit("InvalidVersionFormat", 1)
              /\ UNCHANGED new_version
         [] version_outcome = "increment_error" ->
              /\ print_error_and_exit("VersionIncrementConflict", 1)
              /\ UNCHANGED new_version
         [] OTHER ->
              /\ new_version' = NextVersion
              /\ goto("check_tag")
  /\ nothing_written
  /\ UNCHANGED << options, new_version_release_notes, response, log >>

tag_names(tagset) == { t.name : t \in tagset }

\* Variant: the tag list is asked for the current version, not the new one.
check_if_tag_with_current_version_exists ==
  /\ Running("check_tag")
  /\ \E fails \in BOOLEAN :
       IF fails
         THEN raise("VersionControlCommandFailed")
         ELSE IF CurrentVersion \in tag_names(tags)
                THEN print_error_and_exit("TagAlreadyExists", 1)
                ELSE goto(IF interactive THEN "prompt" ELSE "changelog")
  /\ nothing_written /\ context_kept /\ UNCHANGED log

\* _check_if_tag_with_new_version_already_exists: git tag -l <new_version>
check_if_tag_with_new_version_already_exists ==
  /\ Running("check_tag")
  /\ \E fails \in BOOLEAN :
       IF fails
         THEN raise("VersionControlCommandFailed")
         ELSE IF new_version \in tag_names(tags)
                THEN print_error_and_exit("TagAlreadyExists", 1)
                ELSE goto(IF interactive THEN "prompt" ELSE "changelog")
  /\ nothing_written /\ context_kept /\ UNCHANGED log

\* distutils.util.strtobool; a ValueError counts as no.
strtobool(text) ==
  CASE text \in {"y", "yes", "t", "true", "on", "1"} -> "true"
    [] text \in {"n", "no", "f", "false", "off", "0"} -> "false"
    [] OTHER -> "ValueError"

Responses == {"y", "n", "maybe"}

\* Variant: the prompt exits with the default status of
\* _print_error_and_exit.
prompt_to_proceed_default_status ==
  /\ Running("prompt")
  /\ \E text \in Responses :
       /\ response' = text
       /\ LET should_proceed == strtobool(text) = "true" IN
          IF ~should_proceed
            THEN print_error_and_exit("UserDeclined", 1)
            ELSE goto("changelog")
  /\ nothing_written
  /\ UNCHANGED << options, new_version, new_version_release_notes, log >>

\* _prompt_to_proceed
prompt_to_proceed ==
  /\ Running("prompt")
  /\ \E text \in Responses :
       /\ response' = text
       /\ LET should_proceed == strtobool(text) = "true" IN
          IF ~should_proceed
            THEN print_error_and_exit("UserDeclined", PROMPT_NO_EXIT_STATUS)
            ELSE goto("changelog")
  /\ nothing_written
  /\ UNCHANGED << options, new_version, new_version_release_notes, log >>

\* re.search(first_level_header_pattern, header_raw): the title found,
\* or None.
first_level_header(changelog) ==
  IF changelog.style \in {"hash", "underline"} THEN changelog.title ELSE None

\* The two re.sub calls: a "# title" line becomes "# version"; a title over
\* a line of "=" becomes the version over as many "=" as it has characters.
\* Neither runs for an empty title.
replace_first_header(changelog, version) ==
  CASE changelog.style = "hash" /\ changelog.title # "" ->
         [changelog EXCEPT !.title = version]
    [] changelog.style = "underline" /\ changelog.title # "" ->
         [changelog EXCEPT !.title = version, !.underline = Len(version)]
    [] OTHER -> changelog

\* Variant: the changelog step without its dry-run return.
modify_changelog_first_header_in_dry_run ==
  /\ Running("changelog")
  /\ LET changelog_contents == main_tree.changelog
         title == first_level_header(changelog_contents)
     IN IF title # None /\ title \notin released_versions
          THEN /\ new_version_release_notes' = strip(changelog_contents.notes)
               /\ main_tree' =
                    [main_tree EXCEPT !.changelog =
                       replace_first_header(changelog_contents, new_version)]
               /\ did("write_changelog")
          ELSE UNCHANGED << new_version_release_notes, main_tree, log >>
  /\ goto("config")
  /\ UNCHANGED << main_index, main_head, docs_repo, tags, installers_dir,
                  remote, upload_pos, options, new_version, response >>

\* Variant: the header is compared with the new version only, not with the
\* released versions.
modify_changelog_header_unless_new_version ==
  /\ Running("changelog")
  /\ LET changelog_contents == main_tree.changelog
         title == first_level_header(changelog_contents)
     IN IF title # None /\ title # new_version
          THEN /\ new_version_release_notes' = strip(changelog_contents.notes)
               /\ IF dry_run
                    THEN UNCHANGED << main_tree, log >>
                    ELSE /\ main_tree' =
                              [main_tree EXCEPT !.changelog =
                                 replace_first_header(changelog_contents, new_version)]
                         /\ did("write_changelog")
          ELSE UNCHANGED << new_version_release_notes, main_tree, log >>
  /\ goto("config")
  /\ UNCHANGED << main_index, main_head, docs_repo, tags, installers_dir,
                  remote, upload_pos, options, new_version, response >>

\* _get_release_notes_and_modify_changelog_first_header
get_release_notes_and_modify_changelog_first_header ==
  /\ Running("changelog")
  /\ LET changelog_contents == main_tree.changelog
         title == first_level_header(changelog_contents)
     IN IF title # None /\ title \notin released_versions
          THEN /\ new_version_release_notes' = strip(changelog_contents.notes)
               /\ IF dry_run
                    THEN UNCHANGED << main_tree, log >>
                    ELSE /\ main_tree' =
                              [main_tree EXCEPT !.changelog =
                                 replace_first_header(changelog_contents, new_version)]
                         /\ did("write_changelog")
          ELSE UNCHANGED << new_version_release_notes, main_tree, log >>
  /\ goto("config")
  /\ UNCHANGED << main_index, main_head, docs_repo, tags, installers_dir,
                  remote, upload_pos, options, new_version, response >>

\* re.search(get_entry_pattern(entry_name), line)
entry_matches(entry_name, line) == line.quoted /\ line.name = entry_name

entry_value(entry_name, version) ==
  IF entry_name = "PLUGIN_VERSION" THEN version ELSE NewReleaseDate

\* Variant: every line that matches an entry gets the entry's value.
scan_config_every_line(lines, i, entries_to_find, version) ==
  [lines |->
     [j \in DOMAIN lines |->
        IF \E e \in entries_to_find : entry_matches(e, lines[j])
          THEN [lines[j] EXCEPT !.value =
                  entry_value(CHOOSE e \in entries_to_find :
                                entry_matches(e, lines[j]), version)]
          ELSE lines[j]],
   entries_to_find |->
     { e \in entries_to_find :
         \A j \in DOMAIN lines : ~entry_matches(e, lines[j]) }]

\* The loop over the lines of config.py from line i on: the first line that
\* matches a pending entry gets the entry's value, and the scan stops when
\* nothing is pending.
RECURSIVE scan_config(_, _, _, _)
scan_config(lines, i, entries_to_find, version) ==
  IF i > Len(lines)
    THEN [lines |-> lines, entries_to_find |-> entries_to_find]
    ELSE LET found == { e \in entries_to_find : entry_matches(e, lines[i]) }
             updated == IF found = {}
                          THEN lines
                          ELSE [lines EXCEPT ![i].value =
                                  entry_value(CHOOSE e \in found : TRUE, version)]
             left == entries_to_find \ found
         IN IF left = {}
              THEN [lines |-> updated, entries_to_find |-> left]
              ELSE scan_config(updated, i + 1, left, version)

entries_to_modify == {"PLUGIN_VERSION", "PLUGIN_VERSION_RELEASE_DATE"}

\* _update_version_and_release_date_in_config
update_version_and_release_date_in_config ==
  /\ Running("config")
  /\ IF dry_run
       THEN goto("main_add") /\ UNCHANGED << main_tree, log >>
       ELSE LET result == scan_config(main_tree.config, 1, entries_to_modify,
                                      new_version)
            IN IF result.entries_to_find # {}
                 THEN /\ print_error_and_exit("MissingConfigEntries", 1)
                      /\ UNCHANGED << main_tree, log >>
                 ELSE /\ main_tree' = [main_tree EXCEPT !.config = result.lines]
                      /\ did("write_config")
                      /\ goto("main_add")
  /\ UNCHANGED << main_index, main_head, docs_repo, tags, installers_dir,
                  remote, upload_pos >>
  /\ context_kept

\* _create_release_commit(release_metadata, release_metadata.repo), one git
\* command at a time: add --all, commit -m, add --all, commit --amend.
main_add_all(at, next) ==
  /\ Running(at)
  /\ IF dry_run
       THEN goto("tag") /\ UNCHANGED << main_index, log >>
       ELSE \E fails \in BOOLEAN :
              IF fails
                THEN raise("VersionControlCommandFailed")
                     /\ UNCHANGED << main_index, log >>
                ELSE /\ main_index' = main_tree
                     /\ did(at)
                     /\ goto(next)
  /\ UNCHANGED << main_tree, main_head, docs_repo, tags, installers_dir,
                  remote, upload_pos >>
  /\ context_kept

main_add == main_add_all("main_add", "main_commit")

main_add_again == main_add_all("main_add_again", "main_amend")

\* Variant: the release commit is not amended; the tag step follows the
\* commit.
main_commit_without_amend ==
  /\ Running("main_commit")
  /\ \E fails \in commit_may_fail(main_index, main_head) :
       IF fails
         THEN raise("VersionControlCommandFailed")
              /\ UNCHANGED << main_head, main_tree, log >>
         ELSE /\ main_head' = Commit("release", main_head.id,
                                     get_release_message_header(new_version),
                                     main_index)
              /\ \E hook \in BOOLEAN : main_tree' = [main_tree EXCEPT !.hook = hook]
              /\ did("main_commit")
              /\ goto("tag")
  /\ UNCHANGED << main_index, docs_repo, tags, installers_dir, remote, upload_pos >>
  /\ context_kept

\* Variant: the checkpoint is read when it is used, so it follows HEAD to the
\* release commit.
main_commit_moving_checkpoint ==
  /\ Running("main_commit")
  /\ \E fails \in commit_may_fail(main_index, main_head) :
       IF fails
         THEN raise("VersionControlCommandFailed")
              /\ UNCHANGED << main_head, main_tree, log,
                              last_commit_id_before_release >>
         ELSE /\ main_head' = Commit("release", main_head.id,
                                     get_release_message_header(new_version),
                                     main_index)
              /\ last_commit_id_before_release' = main_head'
              /\ \E hook \in BOOLEAN : main_tree' = [main_tree EXCEPT !.hook = hook]
              /\ did("main_commit")
              /\ goto("main_add_again")
  /\ UNCHANGED << main_index, docs_repo, tags, installers_dir, remote, upload_pos >>
  /\ UNCHANGED << dry_run, force, interactive,
                  last_gh_pages_commit_id_before_release, released_versions,
                  start, new_version, new_version_release_notes, response >>

\* repo.git.commit("-m", "Release <new_version>"); a commit hook may touch
\* tracked files.
main_commit ==
  /\ Running("main_commit")
  /\ \E fails \in commit_may_fail(main_index, main_head) :
       IF fails
         THEN raise("VersionControlCommandFailed")
              /\ UNCHANGED << main_head, main_tree, log >>
         ELSE /\ main_head' = Commit("release", main_head.id,
                                     get_release_message_header(new_version),
                                     main_index)
              /\ \E hook \in BOOLEAN : main_tree' = [main_tree EXCEPT !.hook = hook]
              /\ did("main_commit")
              /\ goto("main_add_again")
  /\ UNCHANGED << main_index, docs_repo, tags, installers_dir, remote, upload_pos >>
  /\ context_kept

\* repo.git.commit("--amend", "--no-edit")
main_amend ==
  /\ Running("main_amend")
  /\ \E fails \in BOOLEAN :
       IF fails
         THEN raise("VersionControlCommandFailed")
              /\ UNCHANGED << main_head, log >>
         ELSE /\ main_head' = Commit("amended", main_head.parent, main_head.msg,
                                     main_index)
              /\ did("main_amend")
              /\ goto("tag")
  /\ UNCHANGED << main_tree, main_index, docs_repo, tags, installers_dir,
                  remote, upload_pos >>
  /\ context_kept

\* _create_release_tag: git tag -a <new_version> -m "Release <new_version>"
create_release_tag ==
  /\ Running("tag")
  /\ IF dry_run
       THEN goto("docs_prepare") /\ UNCHANGED << tags, log >>
       ELSE \E fails \in BOOLEAN :
              IF fails
                THEN raise("VersionControlCommandFailed")
                     /\ UNCHANGED << tags, log >>
                ELSE /\ tags' = tags \cup
                          { [name |-> new_version, target |-> main_head.id,
                             msg |-> get_release_message_header(new_version)] }
                     /\ did("tag")
                     /\ goto("docs_prepare")
  /\ UNCHANGED << main_repo, docs_repo, installers_dir, remote, upload_pos >>
  /\ context_kept

\* _prepare_gh_pages_for_update: rmtree and copytree of "images" and
\* "sections"; an OSError half way leaves the tree partly replaced.
prepare_gh_pages_for_update ==
  /\ Running("docs_prepare")
  /\ IF dry_run
       THEN goto("docs_add") /\ UNCHANGED << docs_tree, log >>
       ELSE \E fails \in BOOLEAN :
              IF fails
                THEN /\ raise("OSError")
                     /\ \E pages \in {"old", "partial"} :
                          docs_tree' = [docs_tree EXCEPT !.pages = pages]
                     /\ UNCHANGED log
                ELSE /\ docs_tree' = [docs_tree EXCEPT !.pages = "dev"]
                     /\ did("docs_prepare")
                     /\ goto("docs_add")
  /\ UNCHANGED << main_repo, docs_index, docs_head, tags, installers_dir,
                  remote, upload_pos >>
  /\ context_kept

\* _create_release_commit(release_metadata, release_metadata.gh_pages_repo)
docs_add_all(at, next) ==
  /\ Running(at)
  /\ IF dry_run
       THEN goto("build") /\ UNCHANGED << docs_index, log >>
       ELSE \E fails \in BOOLEAN :
              IF fails
                THEN raise("VersionControlCommandFailed")
                     /\ UNCHANGED << docs_index, log >>
                ELSE /\ docs_index' = docs_tree
                     /\ did(at)
                     /\ goto(next)
  /\ UNCHANGED << main_repo, docs_tree, docs_head, tags, installers_dir,
                  remote, upload_pos >>
  /\ context_kept

docs_add == docs_add_all("docs_add", "docs_commit")

docs_add_again == docs_add_all("docs_add_again", "docs_amend")

docs_commit ==
  /\ Running("docs_commit")
  /\ \E fails \in commit_may_fail(docs_index, docs_head) :
       IF fails
         THEN raise("VersionControlCommandFailed")
              /\ UNCHANGED << docs_head, docs_tree, log >>
         ELSE /\ docs_head' = Commit("release", docs_head.id,
                                     get_release_message_header(new_version),
                                     docs_index)
              /\ \E hook \in BOOLEAN : docs_tree' = [docs_tree EXCEPT !.hook = hook]
              /\ did("docs_commit")
              /\ goto("docs_add_again")
  /\ UNCHANGED << main_repo, docs_index, tags, installers_dir, remote, upload_pos >>
  /\ context_kept

docs_amend ==
  /\ Running("docs_amend")
  /\ \E fails \in BOOLEAN :
       IF fails
         THEN raise("VersionControlCommandFailed")
              /\ UNCHANGED << docs_head, log >>
         ELSE /\ docs_head' = Commit("amended", docs_head.parent, docs_head.msg,
                                     docs_index)
              /\ did("docs_amend")
              /\ goto("build")
  /\ UNCHANGED << main_repo, docs_tree, docs_index, tags, installers_dir,
                  remote, upload_pos >>
  /\ context_kept

\* What make_installers.make_installers can leave in the output directory
\* when it succeeds, and when it raises.
BuiltInstallers ==
  { << "README", "export_layers.zip", "build.log", "export_layers.exe" >> }

PartlyBuilt == { AbsentDir, Dir(<< "export_layers.zip" >>) }

\* Variant: a failure of the builder is not raised, and the run goes on.
make_installers_failure_ignored ==
  /\ Running("build")
  /\ IF dry_run
       THEN goto("push_main") /\ UNCHANGED << installers_dir, log >>
       ELSE \E fails \in BOOLEAN :
              IF fails
                THEN /\ goto("push_main")
                     /\ installers_dir' \in PartlyBuilt
                     /\ UNCHANGED log
                ELSE /\ \E files \in BuiltInstallers : installers_dir' = Dir(files)
                     /\ did("build")
                     /\ goto("push_main")
  /\ UNCHANGED << main_repo, docs_repo, tags, remote, upload_pos >>
  /\ context_kept

\* _make_installers: the output directory is removed, then built anew.
make_installers ==
  /\ Running("build")
  /\ IF dry_run
       THEN goto("push_main") /\ UNCHANGED << installers_dir, log >>
       ELSE \E fails \in BOOLEAN :
              IF fails
                THEN /\ raise("ArtifactBuildFailed")
                     /\ installers_dir' \in PartlyBuilt
                     /\ UNCHANGED log
                ELSE /\ \E files \in BuiltInstallers : installers_dir' = Dir(files)
                     /\ did("build")
                     /\ goto("push_main")
  /\ UNCHANGED << main_repo, docs_repo, tags, remote, upload_pos >>
  /\ context_kept

\* _push_release_commit(release_metadata, release_metadata.repo)
push_release_commit ==
  /\ Running("push_main")
  /\ IF dry_run
       THEN goto("push_tag") /\ UNCHANGED << remote, log >>
       ELSE \E fails \in BOOLEAN :
              IF fails
                THEN raise("VersionControlCommandFailed")
                     /\ UNCHANGED << remote, log >>
                ELSE /\ remote' = [remote EXCEPT !.main = main_head]
                     /\ did("push_main")
                     /\ goto("push_tag")
  /\ UNCHANGED << main_repo, docs_repo, tags, installers_dir, upload_pos >>
  /\ context_kept

\* _push_release_tag: git push <remote> <release_tag>
push_release_tag ==
  /\ Running("push_tag")
  /\ IF dry_run
       THEN goto("push_docs") /\ UNCHANGED << remote, log >>
       ELSE \E fails \in BOOLEAN :
              IF fails
                THEN raise("VersionControlCommandFailed")
                     /\ UNCHANGED << remote, log >>
                ELSE /\ remote' = [remote EXCEPT !.tags = @ \cup {new_version}]
                     /\ did("push_tag")
                     /\ goto("push_docs")
  /\ UNCHANGED << main_repo, docs_repo, tags, installers_dir, upload_pos >>
  /\ context_kept

\* _push_release_commit(release_metadata, gh_pages_repo, its active branch)
push_gh_pages_commit ==
  /\ Running("push_docs")
  /\ IF dry_run
       THEN goto("publish") /\ UNCHANGED << remote, log >>
       ELSE \E fails \in BOOLEAN :
              IF fails
                THEN raise("VersionControlCommandFailed")
                     /\ UNCHANGED << remote, log >>
                ELSE /\ remote' = [remote EXCEPT !.docs = docs_head]
                     /\ did("push_docs")
                     /\ goto("publish")
  /\ UNCHANGED << main_repo, docs_repo, tags, installers_dir, upload_pos >>
  /\ context_kept

\* _create_github_release: the POST that creates the release object; in a
\* dry run the function returns and the run ends.
create_github_release ==
  /\ Running("publish")
  /\ IF dry_run
       THEN exit_success /\ UNCHANGED << remote, log >>
       ELSE \E fails \in BOOLEAN :
              IF fails
                THEN raise("PublishRequestFailed")
                     /\ UNCHANGED << remote, log >>
                ELSE /\ remote' = [remote EXCEPT !.release =
                          [created |-> TRUE, tag |-> new_version,
                           body |-> new_version_release_notes]]
                     /\ did("create_release")
                     /\ goto("upload")
  /\ UNCHANGED << main_repo, docs_repo, tags, installers_dir, upload_pos >>
  /\ context_kept

\* os.path.splitext(filename)[1][1:]
file_extension(filename) ==
  CASE filename \in {"export_layers.zip", "old.zip"} -> "zip"
    [] filename = "export_layers.exe" -> "exe"
    [] filename = "build.log" -> "log"
    [] OTHER -> ""

\* Variant: every file of the output directory is uploaded, whatever its
\* extension.
upload_every_file_to_github ==
  /\ Running("upload")
  /\ LET files == installers_dir.files IN
     IF upload_pos > Len(files)
       THEN exit_success /\ UNCHANGED << remote, upload_pos, log >>
       ELSE LET filename == files[upload_pos] IN
            \E fails \in BOOLEAN :
              IF fails
                THEN raise("AssetUploadFailed")
                     /\ UNCHANGED << remote, upload_pos, log >>
                ELSE /\ remote' = [remote EXCEPT !.assets =
                                     Append(@, filename)]
                     /\ upload_pos' = upload_pos + 1
                     /\ did("upload")
                     /\ goto("upload")
  /\ UNCHANGED << main_repo, docs_repo, tags, installers_dir >>
  /\ context_kept

\* _upload_installers_to_github: the next file of the walk over the output
\* directory; when the walk is over _make_release returns.
upload_installers_to_github ==
  /\ Running("upload")
  /\ LET files == installers_dir.files IN
     IF upload_pos > Len(files)
       THEN exit_success /\ UNCHANGED << remote, upload_pos, log >>
       ELSE LET filename == files[upload_pos] IN
            IF file_extension(filename) \notin FILE_EXTENSIONS_AND_MIME_TYPES
              THEN /\ upload_pos' = upload_pos + 1
                   /\ goto("upload")
                   /\ UNCHANGED << remote, log >>
              ELSE \E fails \in BOOLEAN :
                     IF fails
                       THEN raise("AssetUploadFailed")
                            /\ UNCHANGED << remote, upload_pos, log >>
                       ELSE /\ remote' = [remote EXCEPT !.assets =
                                            Append(@, filename)]
                            /\ upload_pos' = upload_pos + 1
                            /\ did("upload")
                            /\ goto("upload")
  /\ UNCHANGED << main_repo, docs_repo, tags, installers_dir >>
  /\ context_kept

\* --------------------------------------------------------------- _rollback

\* _rollback is about to run operation p, called from the except clause or
\* from handle_sigint.
RollingBack(p) == ~terminated /\ rb = p

\* sys.exit(1) after _rollback returned, in the except clause and in
\* handle_sigint alike.
exit_after_rollback ==
  /\ terminated' = TRUE
  /\ exit_status' = 1
  /\ rb' = "done"
  /\ UNCHANGED << pc, cause, in_handler, interrupts >>

rollback_next(next) ==
  /\ rb' = next
  /\ UNCHANGED << pc, in_handler, interrupts, process >>

\* if release_metadata.dry_run: return
rollback_begin ==
  /\ RollingBack("start")
  /\ did("rollback")
  /\ IF dry_run THEN exit_after_rollback ELSE rollback_next("tag")
  /\ nothing_written /\ context_kept

\* Variant: the rollback does not delete the tag.
rollback_without_tag_deletion ==
  /\ RollingBack("tag")
  /\ UNCHANGED tags
  /\ did("rollback_tag_error_ignored")
  /\ rollback_next("installers")
  /\ UNCHANGED << main_repo, docs_repo, installers_dir, remote, upload_pos >>
  /\ context_kept

\* Variant: the GitCommandError of git tag -d is not caught and ends the
\* process.
rollback_delete_tag_error_raised ==
  /\ RollingBack("tag")
  /\ IF new_version \in tag_names(tags)
       THEN /\ tags' = { t \in tags : t.name # new_version }
            /\ did("rollback_tag_deleted")
            /\ rollback_next("installers")
       ELSE /\ UNCHANGED tags
            /\ did("rollback_tag_error")
            /\ terminated' = TRUE
            /\ exit_status' = 1
            /\ UNCHANGED << pc, cause, handler >>
  /\ UNCHANGED << main_repo, docs_repo, installers_dir, remote, upload_pos >>
  /\ context_kept

\* git tag -d <new_version>, its GitCommandError ignored.
rollback_delete_tag ==
  /\ RollingBack("tag")
  /\ IF new_version \in tag_names(tags)
       THEN /\ tags' = { t \in tags : t.name # new_version }
            /\ did("rollback_tag_deleted")
       ELSE /\ UNCHANGED tags
            /\ did("rollback_tag_error_ignored")
  /\ rollback_next("installers")
  /\ UNCHANGED << main_repo, docs_repo, installers_dir, remote, upload_pos >>
  /\ context_kept

\* Variant: after the output directory only the gh-pages repository is
\* reset.
rollback_remove_installers_then_gh_pages ==
  /\ RollingBack("installers")
  /\ installers_dir' = AbsentDir
  /\ did("rollback_installers")
  /\ rollback_next("reset_docs")
  /\ UNCHANGED << main_repo, docs_repo, tags, remote, upload_pos >>
  /\ context_kept

\* if os.path.isdir(INSTALLERS_OUTPUT_DIRPATH): shutil.rmtree(...)
rollback_remove_installers ==
  /\ RollingBack("installers")
  /\ installers_dir' = AbsentDir
  /\ did("rollback_installers")
  /\ rollback_next("reset_main")
  /\ UNCHANGED << main_repo, docs_repo, tags, remote, upload_pos >>
  /\ context_kept

\* Variant: the reset of the main repository is followed by a forced push of
\* the checkpoint.
rollback_reset_main_and_remote ==
  /\ RollingBack("reset_main")
  /\ main_head' = last_commit_id_before_release
  /\ main_index' = last_commit_id_before_release.tree
  /\ main_tree' = reset_hard_tree(main_tree, main_index,
                                  last_commit_id_before_release)
  /\ remote' = [remote EXCEPT !.main = last_commit_id_before_release]
  /\ did("rollback_reset_main")
  /\ rollback_next("reset_docs")
  /\ UNCHANGED << docs_repo, tags, installers_dir, upload_pos >>
  /\ context_kept

\* repo.git.reset("--hard", last_commit_id_before_release)
rollback_reset_main ==
  /\ RollingBack("reset_main")
  /\ main_head' = last_commit_id_before_release
  /\ main_index' = last_commit_id_before_release.tree
  /\ main_tree' = reset_hard_tree(main_tree, main_index,
                                  last_commit_id_before_release)
  /\ did("rollback_reset_main")
  /\ rollback_next("reset_docs")
  /\ UNCHANGED << docs_repo, tags, installers_dir, remote, upload_pos >>
  /\ context_kept

\* gh_pages_repo.git.reset("--hard", last_gh_pages_commit_id_before_release),
\* then sys.exit(1).
rollback_reset_gh_pages ==
  /\ RollingBack("reset_docs")
  /\ docs_head' = last_gh_pages_commit_id_before_release
  /\ docs_index' = last_gh_pages_commit_id_before_release.tree
  /\ docs_tree' = reset_hard_tree(docs_tree, docs_index,
                                  last_gh_pages_commit_id_before_release)
  /\ did("rollback_reset_docs")
  /\ exit_after_rollback
  /\ UNCHANGED << main_repo, tags, installers_dir, remote, upload_pos >>
  /\ context_kept

\* Variant: the handler exits without calling _rollback.
handle_sigint_without_rollback ==
  /\ ~terminated
  /\ interrupts < MaxInterrupts
  /\ interrupts' = interrupts + 1
  /\ in_handler' = TRUE
  /\ terminated' = TRUE
  /\ exit_status' = 1
  /\ cause' = IF cause = None THEN "Interrupt" ELSE cause
  /\ did("sigint")
  /\ UNCHANGED << pc, rb >>
  /\ nothing_written /\ context_kept

\* handle_sigint: a SIGINT arrives while the process runs; the handler calls
\* _rollback from its start, whatever was running, and then sys.exit(1).
handle_sigint ==
  /\ ~terminated
  /\ interrupts < MaxInterrupts
  /\ interrupts' = interrupts + 1
  /\ in_handler' = TRUE
  /\ rb' = "start"
  /\ cause' = IF cause = None THEN "Interrupt" ELSE cause
  /\ did("sigint")
  /\ UNCHANGED << pc, terminated, exit_status >>
  /\ nothing_written /\ context_kept

\* The commands of _rollback after the tag deletion that can raise: rmtree
\* (run only when the directory exists) and the two resets.
RollbackCommands == {"installers", "reset_main", "reset_docs"}

\* One of those commands raises.  Nothing in _rollback catches it: from the
\* except clause it leaves the process with a traceback (status 1); from
\* handle_sigint it surfaces in the code the signal interrupted, where the
\* except clause catches it if that code was still inside the try block.
rollback_command_fails ==
  /\ ~terminated
  /\ rb \in RollbackCommands
  /\ rb = "installers" => installers_dir.exists
  /\ did("rollback_" \o rb \o "_error")
  /\ IF in_handler /\ pc # "except"
       THEN /\ pc' = "except"
            /\ rb' = "start"
            /\ in_handler' = FALSE
            /\ UNCHANGED << interrupts, process >>
       ELSE /\ terminated' = TRUE
            /\ exit_status' = 1
            /\ UNCHANGED << pc, cause, handler >>
  /\ nothing_written /\ context_kept

\* ------------------------------------------------------------ specification

Next ==
  \/ check_main_local_changes
  \/ check_gh_pages_local_changes
  \/ get_next_version
  \/ check_if_tag_with_new_version_already_exists
  \/ prompt_to_proceed
  \/ get_release_notes_and_modify_changelog_first_header
  \/ update_version_and_release_date_in_config
  \/ main_add
  \/ main_commit
  \/ main_add_again
  \/ main_amend
  \/ create_release_tag
  \/ prepare_gh_pages_for_update
  \/ docs_add
  \/ docs_commit
  \/ docs_add_again
  \/ docs_amend
  \/ make_installers
  \/ push_release_commit
  \/ push_release_tag
  \/ push_gh_pages_commit
  \/ create_github_release
  \/ upload_installers_to_github
  \/ rollback_begin
  \/ rollback_delete_tag
  \/ rollback_remove_installers
  \/ rollback_reset_main
  \/ rollback_reset_gh_pages
  \/ handle_sigint

Spec == Init /\ [][Next]_vars

\* The program where the commands of _rollback can fail too.
NextRollbackFaults == Next \/ rollback_command_fails

SpecRollbackFaults == Init /\ [][NextRollbackFaults]_vars

\* ------------------------------------------------------ reading the history

Has(event) == \E i \in DOMAIN log : log[i] = event

\* Both events are in the log, the first before the second.
Before(first, second) ==
  \E i, j \in DOMAIN log : i < j /\ log[i] = first /\ log[j] = second

\* Operations of the release sequence (not of the rollback).
ForwardEvents ==
  { "write_changelog", "write_config", "main_add", "main_commit",
    "main_add_again", "main_amend", "tag", "docs_prepare", "docs_add",
    "docs_commit", "docs_add_again", "docs_amend", "build", "push_main",
    "push_tag", "push_docs", "create_release", "upload" }

IsForward(event) == event \in ForwardEvents

ForwardLog == SelectSeq(log, IsForward)

Local ==
  [main_tree |-> main_tree, main_index |-> main_index, main_head |-> main_head,
   tags |-> tags, docs_tree |-> docs_tree, docs_index |-> docs_index,
   docs_head |-> docs_head, installers_dir |-> installers_dir]

\* The state the run started from: HEAD and index were those of the
\* checkpoints, and the remote was level with the local repositories.
StartLocal ==
  [main_tree |-> start.main_tree,
   main_index |-> last_commit_id_before_release.tree,
   main_head |-> last_commit_id_before_release,
   tags |-> start.tags,
   docs_tree |-> start.docs_tree,
   docs_index |-> last_gh_pages_commit_id_before_release.tree,
   docs_head |-> last_gh_pages_commit_id_before_release,
   installers_dir |-> start.installers_dir]

StartRemote ==
  [main |-> last_commit_id_before_release,
   docs |-> last_gh_pages_commit_id_before_release,
   tags |-> tag_names(start.tags),
   release |-> NoRelease, assets |-> << >>]

StartMainDirty ==
  has_active_branch_local_changes(start.main_tree, StartLocal.main_index,
                                  StartLocal.main_head)

StartDocsDirty ==
  has_active_branch_local_changes(start.docs_tree, StartLocal.docs_index,
                                  StartLocal.docs_head)

\* -------------------------------------------------------------------- claims

\* C1: in a run that is not a dry run and starts with both working trees
\* clean (and with neither the tag nor the output directory present), a
\* failure or interrupt before the main push leaves, at process exit, the
\* changelog and config.py with their starting contents, both HEADs at their
\* checkpoints, no tag named new_version and no output directory.
C1_AllOrNothingRollback ==
  ( /\ terminated /\ exit_status # 0
    /\ ~dry_run
    /\ ~StartMainDirty /\ ~StartDocsDirty
    /\ NextVersion \notin tag_names(start.tags)
    /\ ~start.installers_dir.exists
    /\ ~Has("push_main") )
  => /\ main_tree.changelog = start.main_tree.changelog
     /\ main_tree.config = start.main_tree.config
     /\ main_head = last_commit_id_before_release
     /\ docs_head = last_gh_pages_commit_id_before_release
     /\ new_version \notin tag_names(tags)
     /\ ~installers_dir.exists

RollbackKinds ==
  { "DirtyWorkingTree", "InvalidVersionFormat", "VersionIncrementConflict",
    "TagAlreadyExists", "MissingConfigEntries", "VersionControlCommandFailed",
    "ArtifactBuildFailed", "PublishRequestFailed", "AssetUploadFailed" }

\* C2: a run that ends with any fatal error kind other than UserDeclined has
\* executed the rollback routine before the process exits.
C2_EveryFatalKindRollsBack ==
  (terminated /\ cause \in RollbackKinds) => Has("rollback")

\* C3: a dry run changes nothing: in every state of a run with dry_run set,
\* whatever its outcome, both repositories, the tags, the output directory
\* and the remote are as the run started; so the rollback changes nothing.
C3_DryRunNoMutation ==
  dry_run => Local = StartLocal /\ remote = StartRemote

\* A dry run went through every step up to the last and was then interrupted:
\* the rollback routine ran.
C3_Witness ==
  dry_run /\ terminated /\ pc = "publish" /\ Has("rollback")

\* C4: when the artifact build raises (after the main release commit, the
\* tag and the docs commit, before any push), rollback runs and at exit the
\* tag named new_version is gone, both HEADs are at their checkpoints and
\* nothing of the remote has changed.
C4_BuildFailureRollsBack ==
  (terminated /\ cause = "ArtifactBuildFailed")
  => /\ Has("main_amend") /\ Has("tag") /\ Has("docs_amend")
     /\ Has("rollback")
     /\ new_version \notin tag_names(tags)
     /\ main_head = last_commit_id_before_release
     /\ docs_head = last_gh_pages_commit_id_before_release
     /\ remote = StartRemote

\* The build failed and the rollback removed the tag the run had created.
C4_Witness ==
  /\ terminated /\ cause = "ArtifactBuildFailed"
  /\ Before("tag", "rollback_tag_deleted")
  /\ Before("docs_amend", "rollback_reset_docs")

\* C5: when the computed new_version is already a tag of the main
\* repository, no operation of the release sequence is ever performed, and
\* the run that aborts with TagAlreadyExists exits with status 1 leaving
\* local and remote state as they were.
C5_ExistingTagAbortsBeforeAnyChange ==
  NextVersion \in tag_names(start.tags)
  => /\ ForwardLog = << >>
     /\ pc \in {"check_main", "check_docs", "next_version", "check_tag", "except"}
     /\ (terminated /\ cause = "TagAlreadyExists")
        => /\ exit_status = 1
           /\ new_version = NextVersion
           /\ Local = StartLocal /\ remote = StartRemote

C5_Witness ==
  terminated /\ cause = "TagAlreadyExists" /\ ~dry_run

\* The commit this run released: HEAD of the main repository after the amend.
IsReleaseCommit(commit) ==
  /\ commit # last_commit_id_before_release
  /\ commit.msg = get_release_message_header(new_version)

\* C6: pushes go main branch, tag, docs branch, and only after a successful
\* build: the tag is on the remote only if the main release commit is, the
\* docs branch is pushed only if the tag is, and the remote (pushes and
\* publication) is untouched unless the build has succeeded.
C6_PushOrder ==
  /\ (new_version \in remote.tags /\ new_version \notin StartRemote.tags)
     => /\ IsReleaseCommit(remote.main)
        /\ Before("push_main", "push_tag")
  /\ remote.docs # StartRemote.docs
     => /\ new_version \in remote.tags
        /\ Before("push_tag", "push_docs")
  /\ remote # StartRemote
     => /\ Before("build", "push_main")
        /\ remote.main # StartRemote.main
  /\ (terminated /\ ~Has("build")) => remote = StartRemote

\* All three pushes have happened.
C6_Witness ==
  /\ remote.docs # StartRemote.docs
  /\ remote.main # StartRemote.main
  /\ new_version \in remote.tags

\* C7: the run gets past the initial check only if the gh-pages repository
\* has no local changes and the main repository has none or force is set;
\* with a dirty gh-pages repository, whatever force is, the run never
\* computes the version and performs no operation of the sequence.
C7_InitialCheck ==
  /\ pc \notin {"check_main", "check_docs", "except"}
     => ~StartDocsDirty /\ (~StartMainDirty \/ force)
  /\ StartDocsDirty
     => /\ pc \in {"check_main", "check_docs", "except"}
        /\ new_version = None
        /\ ForwardLog = << >>
        /\ terminated => exit_status = 1

\* Force is set, the gh-pages repository is dirty, and the run aborted at
\* the check.
C7_Witness ==
  /\ force /\ StartDocsDirty
  /\ terminated /\ cause = "DirtyWorkingTree" /\ pc = "check_docs"

\* Every step of the sequence has run to its end.
Completed ==
  /\ cause = None
  /\ \/ dry_run /\ pc = "publish"
     \/ ~dry_run /\ pc = "upload" /\ upload_pos > Len(installers_dir.files)
                 /\ remote.release.created

\* The user answered the prompt, and not with a yes.
Declined == response # None /\ strtobool(response) # "true"

\* C8: the exit status is 0 exactly when every step completed, 2 exactly
\* when the user declined at the prompt, and 1 for every other end (guard
\* failure, step exception, interrupt).
C8_ExitStatus ==
  terminated
  => /\ exit_status \in {0, 1, PROMPT_NO_EXIT_STATUS}
     /\ exit_status = 0 <=> Completed
     /\ exit_status = PROMPT_NO_EXIT_STATUS <=> Declined
     /\ exit_status = 1 <=> (~Completed /\ ~Declined)
     /\ cause = "UserDeclined" => exit_status = PROMPT_NO_EXIT_STATUS

\* The user typed something that is no boolean at all, and the status is 2.
C8_Witness ==
  /\ terminated /\ exit_status = PROMPT_NO_EXIT_STATUS
  /\ strtobool(response) = "ValueError"

\* C9 as stated: when interactive is set and the answer is not a yes, the
\* run ends with the user-declined status and the rollback routine has run
\* before the exit.
C9_DeclineRunsRollback ==
  (terminated /\ interactive /\ Declined)
  => exit_status = PROMPT_NO_EXIT_STATUS /\ Has("rollback")

\* C9 amended: when interactive is set and the answer is not a yes, the run
\* ends with the user-declined status, the rollback routine does not run,
\* and local and remote state are as the run started.
C9_DeclineExitsWithoutRollback ==
  (terminated /\ interactive /\ Declined)
  => /\ exit_status = PROMPT_NO_EXIT_STATUS
     /\ cause = "UserDeclined"
     /\ ~Has("rollback")
     /\ Local = StartLocal /\ remote = StartRemote

\* The user declined a forced release of a main repository with local
\* changes.
C9_Witness ==
  /\ terminated /\ interactive /\ response = "n"
  /\ force /\ StartMainDirty /\ ~dry_run

\* What _rollback leaves of the local state when it has run to its end:
\* nothing changed in a dry run; otherwise no tag named new_version, no
\* output directory, and both repositories at their checkpoints (files git
\* never tracked stay).
AfterRollback ==
  IF dry_run
    THEN StartLocal
    ELSE [main_tree |->
            IF start.main_tree.local = "untracked" /\ ~Has("main_add")
              THEN [last_commit_id_before_release.tree
                      EXCEPT !.local = "untracked"]
              ELSE last_commit_id_before_release.tree,
          main_index |-> last_commit_id_before_release.tree,
          main_head |-> last_commit_id_before_release,
          tags |-> { t \in start.tags : t.name # new_version },
          docs_tree |->
            IF start.docs_tree.local = "untracked" /\ ~Has("docs_add")
              THEN [last_gh_pages_commit_id_before_release.tree
                      EXCEPT !.local = "untracked"]
              ELSE last_gh_pages_commit_id_before_release.tree,
          docs_index |-> last_gh_pages_commit_id_before_release.tree,
          docs_head |-> last_gh_pages_commit_id_before_release,
          installers_dir |-> AbsentDir]

\* C10: once a SIGINT has arrived no further step of the sequence runs; the
\* process then exits with a status other than 0 after the rollback routine
\* has run; and the local state at exit after a rollback is the same
\* function of the point reached, whether an interrupt or a step's exception
\* started the rollback.
C10_InterruptRollsBackLikeException ==
  /\ [][interrupts > 0 => (pc' = pc /\ ForwardLog' = ForwardLog)]_vars
  /\ []((terminated /\ interrupts > 0)
          => /\ exit_status # 0
             /\ Before("sigint", "rollback")
             /\ in_handler)
  /\ []((terminated /\ Has("rollback")) => Local = AfterRollback)

\* An interrupt arrived after the tag was created, and the run ended.
C10_Witness ==
  /\ terminated /\ cause = "Interrupt" /\ ~dry_run
  /\ Before("tag", "sigint")
  /\ Before("sigint", "rollback_tag_deleted")

\* ---------------------------------------------------- claims on the rollback

RollbackTagEvents == {"rollback_tag_deleted", "rollback_tag_error_ignored"}

RollbackErrorEvents ==
  { "rollback_installers_error", "rollback_reset_main_error",
    "rollback_reset_docs_error" }

\* The event logged just before position i, or None at the start.
Previous(i) == IF i = 1 THEN None ELSE log[i - 1]

\* C11: when not a dry run the rollback deletes the tag named new_version,
\* removes the output directory and resets the main and then the gh-pages
\* repository to their checkpoints, in that order; a failing tag deletion is
\* ignored and the rest still runs to the end, while a failure of any other
\* rollback command ends that rollback at once: none of its remaining
\* commands runs.
C11_RollbackOrderAndErrors ==
  /\ \A i \in DOMAIN log :
       /\ log[i] \in RollbackTagEvents
          => Previous(i) = "rollback" /\ ~dry_run
       /\ log[i] \in {"rollback_installers", "rollback_installers_error"}
          => Previous(i) \in RollbackTagEvents
       /\ log[i] \in {"rollback_reset_main", "rollback_reset_main_error"}
          => Previous(i) = "rollback_installers"
       /\ log[i] \in {"rollback_reset_docs", "rollback_reset_docs_error"}
          => Previous(i) = "rollback_reset_main"
       /\ Previous(i) \in RollbackErrorEvents
          => log[i] \in {"rollback", "sigint"}
  /\ rb = "installers" => new_version \notin tag_names(tags)
  /\ rb = "reset_main" => ~installers_dir.exists
  /\ rb = "reset_docs" => main_head = last_commit_id_before_release
  /\ (terminated /\ Has("rollback") /\ ~dry_run)
     => /\ log[Len(log)] \in {"rollback_reset_docs"} \cup RollbackErrorEvents
        /\ log[Len(log)] = "rollback_reset_docs"
           => /\ docs_head = last_gh_pages_commit_id_before_release
              /\ main_head = last_commit_id_before_release
              /\ ~installers_dir.exists
              /\ new_version \notin tag_names(tags)
        /\ log[Len(log)] \in RollbackErrorEvents => exit_status = 1

\* A rollback whose tag deletion failed went on and then broke off at the
\* reset of the main repository, which stays at the release commit.
C11_Witness ==
  /\ terminated
  /\ Before("rollback_tag_error_ignored", "rollback_installers")
  /\ log[Len(log)] = "rollback_reset_main_error"
  /\ main_head # last_commit_id_before_release


\* How many times the event is in the log.
Count(event) == Cardinality({ i \in DOMAIN log : log[i] = event })

\* C12: no step taken while the rollback is in progress changes the remote;
\* so when a run that had pushed the main release commit ends after a
\* rollback, the remote still holds every commit and tag pushed, the release
\* object created and the assets uploaded, while the local main repository is
\* back at its checkpoint and the local tag is gone.
C12_RollbackLeavesRemote ==
  /\ [][(~terminated /\ rb # "none") => remote' = remote]_vars
  /\ [](( /\ terminated
          /\ Has("push_main")
          /\ Has("rollback") )
        => /\ IsReleaseCommit(remote.main)
           /\ remote.main # last_commit_id_before_release
           /\ Has("push_tag") => new_version \in remote.tags
           /\ Has("push_docs") => IsReleaseCommit(remote.docs)
           /\ Has("create_release") => remote.release # NoRelease
           /\ Len(remote.assets) = Count("upload")
           /\ main_head = last_commit_id_before_release
           /\ new_version \notin tag_names(tags))

\* An upload failed after one asset went up: the rollback has run, and the
\* remote keeps the commits, the tag, the release and that asset.
C12_Witness ==
  /\ terminated
  /\ cause = "AssetUploadFailed"
  /\ Has("rollback_reset_docs")
  /\ Len(remote.assets) = 1
  /\ remote.release # NoRelease
  /\ new_version \in remote.tags
  /\ main_head = last_commit_id_before_release


\* repo.git.rev_parse("HEAD") when the release metadata is built: the commit
\* the starting working tree is based on.
head_at_construction ==
  Commit("base", "older", "Last commit",
         [start.main_tree EXCEPT !.local = "clean"])

gh_pages_head_at_construction ==
  Commit("base", "older", "Last commit",
         [start.docs_tree EXCEPT !.local = "clean"])

\* C13: both checkpoints are the HEAD commits read when the release metadata
\* is built, in every state of the run, during and after the rollback too;
\* they are never a commit the run created, and the commits the rollback
\* resets the repositories to are these.
C13_CheckpointsFixed ==
  /\ last_commit_id_before_release = head_at_construction
  /\ last_gh_pages_commit_id_before_release = gh_pages_head_at_construction
  /\ last_commit_id_before_release.id \notin {"release", "amended"}
  /\ last_gh_pages_commit_id_before_release.id \notin {"release", "amended"}
  /\ log = << >> => /\ main_head = last_commit_id_before_release
                    /\ docs_head = last_gh_pages_commit_id_before_release
  /\ rb = "reset_docs" => main_head = head_at_construction
  /\ (terminated /\ log # << >> /\ log[Len(log)] = "rollback_reset_docs")
     => /\ main_head = head_at_construction
        /\ docs_head = gh_pages_head_at_construction

\* Both repositories had release commits, and the rollback has put them back
\* on the commits read at construction.
C13_Witness ==
  /\ terminated
  /\ Has("main_amend")
  /\ Has("docs_amend")
  /\ Has("rollback_reset_docs")
  /\ main_head = head_at_construction
  /\ docs_head = gh_pages_head_at_construction


\* The operations of _make_release that come after the version increment.
StepsAfterNextVersion ==
  { "check_tag", "prompt", "changelog", "config", "main_add", "main_commit",
    "main_add_again", "main_amend", "tag", "docs_prepare", "docs_add",
    "docs_commit", "docs_add_again", "docs_amend", "build", "push_main",
    "push_tag", "push_docs", "publish", "upload" }

\* C14: new_version changes only once, from unset to the incremented
\* version, in the version step when parsing and incrementing succeeded, and
\* the run then goes on to the tag check; when either fails the run ends
\* there with new_version unset and nothing done; every later step runs with
\* new_version set, and no later step and no rollback step changes it.
C14_NewVersionSetOnce ==
  /\ [][new_version' # new_version
        => /\ pc = "next_version" /\ rb = "none" /\ ~terminated
           /\ new_version = None
           /\ new_version' = NextVersion
           /\ pc' = "check_tag" /\ ~terminated']_vars
  /\ [](cause \in {"InvalidVersionFormat", "VersionIncrementConflict"}
        => /\ terminated /\ exit_status = 1
           /\ pc = "next_version"
           /\ new_version = None
           /\ log = << >>)
  /\ [](pc \in StepsAfterNextVersion => new_version = NextVersion)
  /\ [](new_version = None => ForwardLog = << >>)

\* The version was set, the release went as far as the tag, and the rollback
\* that followed left new_version as it was.
C14_Witness ==
  /\ terminated
  /\ Has("tag")
  /\ Has("rollback_reset_docs")
  /\ new_version = NextVersion


\* C15: the changelog step always goes on to the config step.  When the title
\* of the first header is a released version it changes neither the file nor
\* the release notes; when the title is not a released version and the run is
\* not a dry run, the file afterwards has the new version as the title of its
\* first header, in the style the header had (an underline as long as the
\* new version), the section text is untouched, and the release notes are
\* the section text without its surrounding whitespace.
C15_ChangelogStep ==
  [][(pc = "changelog" /\ rb = "none" /\ ~terminated /\ pc' # "changelog")
     => LET changelog_contents == main_tree.changelog
            title == first_level_header(changelog_contents)
        IN /\ pc' = "config"
           /\ ~terminated'
           /\ title \in released_versions
              => /\ main_tree' = main_tree
                 /\ log' = log
                 /\ new_version_release_notes' = ""
           /\ (title # None /\ title \notin released_versions /\ ~dry_run)
              => /\ main_tree'.changelog =
                      [style |-> changelog_contents.style,
                       title |-> new_version,
                       underline |->
                         IF changelog_contents.style = "underline"
                           THEN 5 ELSE 0,
                       notes |-> changelog_contents.notes]
                 /\ main_tree'.config = main_tree.config
                 /\ log' = Append(log, "write_changelog")
                 /\ new_version_release_notes' = "Fixed bugs."]_vars

\* The header "Unreleased" over a line of "=" has become the new version over
\* a line of five "=", and the run is at the config step with the notes.
C15_Witness ==
  /\ pc = "config"
  /\ rb = "none"
  /\ main_tree.changelog.style = "underline"
  /\ main_tree.changelog.title = NextVersion
  /\ main_tree.changelog.underline = 5
  /\ start.main_tree.changelog.title = "Unreleased"
  /\ new_version_release_notes = "Fixed bugs."


\* The names among the two requested that no line of the file assigns in
\* the quoted form.
MissingEntries(lines) ==
  { name \in {"PLUGIN_VERSION", "PLUGIN_VERSION_RELEASE_DATE"} :
      \A i \in DOMAIN lines : ~(lines[i].quoted /\ lines[i].name = name) }

\* Line i is the first line of the file that assigns the name in quoted form.
IsFirstMatch(lines, i, name) ==
  /\ lines[i].quoted /\ lines[i].name = name
  /\ \A j \in 1..(i - 1) : ~(lines[j].quoted /\ lines[j].name = name)

\* C16: for the file the config step is about to read, the scan yields the
\* same lines except that the first line assigning PLUGIN_VERSION holds the
\* new version and the first line assigning PLUGIN_VERSION_RELEASE_DATE the
\* new date (later lines assigning them again are left alone), and its
\* pending entries are exactly the requested names that no line assigns;
\* the step fails with the missing-entries error exactly when that set is
\* not empty, the found entries being substituted in the scanned lines all
\* the same, and otherwise the file holds the scanned lines.
C16_ConfigUpdate ==
  /\ (pc = "config" /\ new_version # None)
     => LET lines == start.main_tree.config
            result == scan_config(lines, 1, entries_to_modify, new_version)
        IN /\ result.entries_to_find = MissingEntries(lines)
           /\ DOMAIN result.lines = DOMAIN lines
           /\ \A i \in DOMAIN lines :
                result.lines[i] =
                  IF IsFirstMatch(lines, i, "PLUGIN_VERSION")
                    THEN [lines[i] EXCEPT !.value = new_version]
                    ELSE IF IsFirstMatch(lines, i, "PLUGIN_VERSION_RELEASE_DATE")
                           THEN [lines[i] EXCEPT !.value = NewReleaseDate]
                           ELSE lines[i]
           /\ cause = "MissingConfigEntries"
              => /\ terminated /\ exit_status = 1
                 /\ result.entries_to_find # {}
                 /\ ~Has("write_config")
  /\ (pc = "config" /\ rb = "none" /\ ~terminated) => ~Has("write_config")
  /\ Has("write_config") => MissingEntries(start.main_tree.config) = {}
  /\ (Has("write_config") /\ ~Has("rollback_reset_main"))
     => main_tree.config =
          scan_config(start.main_tree.config, 1, entries_to_modify,
                      new_version).lines

\* The file assigns the release date but not the version in quoted form: the
\* step has failed over the version, with the date substituted in its lines.
C16_Witness ==
  /\ terminated
  /\ cause = "MissingConfigEntries"
  /\ LET result == scan_config(start.main_tree.config, 1, entries_to_modify,
                               new_version)
     IN /\ result.entries_to_find = {"PLUGIN_VERSION"}
        /\ result.lines[1].value = NewReleaseDate
        /\ result.lines[1] # start.main_tree.config[1]


\* The files the upload loop does not skip.
has_known_extension(filename) ==
  filename \in {"export_layers.zip", "export_layers.exe", "old.zip"}

\* C17: an asset is uploaded only after the release object was created; the
\* assets on the remote are, in walk order, exactly the files before the
\* loop's position whose extension is in the table, so files without an
\* extension or with an unknown one are skipped; once an upload has failed no
\* step uploads anything more or changes the remote at all, rollback
\* included, so the release object and the assets uploaded before the
\* failure stay; a run that succeeds has uploaded every file with a known
\* extension.
C17_PublishStep ==
  /\ [](Has("upload")
        => /\ Before("create_release", "upload")
           /\ remote.release # NoRelease)
  /\ [](\A i \in DOMAIN remote.assets :
          remote.assets[i] \in {"export_layers.zip", "export_layers.exe"})
  /\ []((pc = "upload" /\ rb = "none" /\ ~terminated)
        => remote.assets =
             SelectSeq(SubSeq(installers_dir.files, 1, upload_pos - 1),
                       has_known_extension))
  /\ [][cause = "AssetUploadFailed"
        => remote' = remote /\ upload_pos' = upload_pos]_vars
  /\ [](cause = "AssetUploadFailed"
        => /\ remote.release # NoRelease
           /\ remote.assets \in {<< >>, << "export_layers.zip" >>})
  /\ []((terminated /\ exit_status = 0 /\ ~dry_run)
        => remote.assets = << "export_layers.zip", "export_layers.exe" >>)

\* The zip archive went up, the log file was skipped, the upload of the
\* executable failed, and after the rollback the release and the archive are
\* still on the remote.
C17_Witness ==
  /\ terminated
  /\ cause = "AssetUploadFailed"
  /\ upload_pos = 4
  /\ remote.assets = << "export_layers.zip" >>
  /\ remote.release.body = new_version_release_notes
  /\ ~installers_dir.exists
  /\ log[Len(log)] = "rollback_reset_docs"


\* The tags named like the new version that were not there at the start.
release_tags == { t \in tags \ start.tags : t.name = new_version }

\* The four events before position i of the log are the four commands of a
\* release commit, in order.
FourCommands(i, add, commit, add_again, amend) ==
  /\ i > 3
  /\ log[i - 3] = add
  /\ log[i - 2] = commit
  /\ log[i - 1] = add_again
  /\ log[i] = amend

\* C18: in each repository a release commit is made by stage-all, commit,
\* stage-all, amend, in that order and with nothing in between, and the
\* commit carries the message "Release <new_version>" before and after the
\* amend; the tag step runs only after the amend of the main repository;
\* once the tag check has passed, a tag named new_version is the one the tag
\* step made: it points at the amended commit, which is HEAD as long as no
\* rollback has begun and is the commit on the remote once the main branch is
\* pushed, and its message is that commit's message.
C18_TagAfterAmend ==
  /\ \A i \in DOMAIN log :
       /\ log[i] = "main_amend"
          => FourCommands(i, "main_add", "main_commit", "main_add_again",
                          "main_amend")
       /\ log[i] = "docs_amend"
          => FourCommands(i, "docs_add", "docs_commit", "docs_add_again",
                          "docs_amend")
       /\ log[i] = "tag" => i > 1 /\ log[i - 1] = "main_amend"
  /\ (rb = "none" /\ Has("main_commit"))
     => /\ main_head.msg = "Release 1.3.0"
        /\ main_head.id = IF Has("main_amend") THEN "amended" ELSE "release"
  /\ (rb = "none" /\ Has("docs_commit")) => docs_head.msg = "Release 1.3.0"
  /\ (rb = "none" /\ Has("main_amend")) => main_head.tree = main_tree
  /\ (pc \in StepsAfterNextVersion \ {"check_tag"})
     => { t \in tags : t.name = new_version } = release_tags
  /\ release_tags # {} => Has("tag")
  /\ \A t \in release_tags :
       /\ Before("main_amend", "tag")
       /\ t.target = "amended"
       /\ t.msg = "Release 1.3.0"
       /\ rb = "none" => main_head.id = t.target /\ main_head.msg = t.msg
       /\ Has("push_main")
          => remote.main.id = t.target /\ remote.main.msg = t.msg

\* The tag exists, the main branch is pushed, and the commit on the remote is
\* the amended commit the tag points at, a commit hook having changed a
\* tracked file between the commit and the amend.
C18_Witness ==
  /\ Has("push_main")
  /\ rb = "none"
  /\ \E t \in release_tags : t.target = remote.main.id
  /\ remote.main.id = "amended"
  /\ remote.main.tree.hook


\* C19: a run in which the rollback was entered more than once (an interrupt
\* arrived while a rollback was in progress) ends with status 1 in the local
\* state one rollback gives: no tag named new_version, no output directory,
\* HEAD and index of both repositories at their checkpoints; every one of
\* its rollbacks got past the tag deletion, and the last ran to its end.
C19_RollbackReentry ==
  /\ (terminated /\ Count("rollback") > 1 /\ ~dry_run)
     => /\ exit_status = 1
        /\ new_version \notin tag_names(tags)
        /\ ~installers_dir.exists
        /\ main_head = last_commit_id_before_release
        /\ main_index = last_commit_id_before_release.tree
        /\ docs_head = last_gh_pages_commit_id_before_release
        /\ docs_index = last_gh_pages_commit_id_before_release.tree
        /\ Local = AfterRollback
        /\ log[Len(log)] = "rollback_reset_docs"
  /\ (terminated /\ Count("rollback") > 1 /\ dry_run) => Local = StartLocal
  /\ \A i \in DOMAIN log :
       log[i] = "rollback_tag_error_ignored"
       => /\ ~terminated \/ i < Len(log)
          /\ i < Len(log) => log[i + 1] \in {"rollback_installers", "sigint"}

\* The first rollback deleted the tag and was interrupted; the second found
\* no tag, went on all the same, and the run ended as after one rollback.
C19_Witness ==
  /\ terminated
  /\ Count("rollback") = 2
  /\ Has("docs_amend")
  /\ Before("rollback_tag_deleted", "rollback_tag_error_ignored")
  /\ log[Len(log)] = "rollback_reset_docs"
  /\ Local = AfterRollback


\* The run was forced, started with local changes in the main repository,
\* was not a dry run, got past the initial check to compute the version, and
\* its rollback has run to the end.
ForcedDirtyRunRolledBack ==
  /\ force /\ StartMainDirty /\ ~dry_run
  /\ new_version # None
  /\ terminated
  /\ log # << >> /\ log[Len(log)] = "rollback_reset_docs"

\* What a forced run on a dirty main repository does up to the rollback: it
\* is not stopped by the check of the main repository, and its release
\* commit contains the local changes it started with.
ForcedDirtyRunCommitsChanges ==
  (force /\ StartMainDirty /\ ~dry_run)
  => /\ ~(pc = "check_main" /\ cause = "DirtyWorkingTree")
     /\ (Has("main_commit") /\ rb = "none")
        => /\ main_head.tree.local = start.main_tree.local
           /\ main_head.tree.local # "clean"

\* C20 as stated: a forced run on a dirty main repository passes the check,
\* commits the local changes, and after a rollback the main repository is
\* the clean checkpoint commit (HEAD, index and working tree), not the dirty
\* working tree the run started from.
C20_RollbackToCleanCheckpoint ==
  /\ ForcedDirtyRunCommitsChanges
  /\ ForcedDirtyRunRolledBack
     => /\ main_head = last_commit_id_before_release
        /\ main_index = last_commit_id_before_release.tree
        /\ main_tree = last_commit_id_before_release.tree
        /\ main_tree # start.main_tree

\* C20, amended: after the rollback HEAD and index are the checkpoint's and
\* no change to a tracked file is left; local changes that were untracked
\* files are gone too if the run had staged them, but are still in the
\* working tree, which is then the one the run started from, if the failure
\* came before the first stage-all.
C20_RollbackDiscardsTrackedChanges ==
  /\ ForcedDirtyRunCommitsChanges
  /\ ForcedDirtyRunRolledBack
     => /\ main_head = last_commit_id_before_release
        /\ main_index = last_commit_id_before_release.tree
        /\ main_tree.changelog = last_commit_id_before_release.tree.changelog
        /\ main_tree.config = last_commit_id_before_release.tree.config
        /\ main_tree.local # "modified"
        /\ IF start.main_tree.local = "untracked" /\ ~Has("main_add")
             THEN main_tree = start.main_tree
             ELSE /\ main_tree = last_commit_id_before_release.tree
                  /\ main_tree # start.main_tree

\* A forced run started with a modified tracked file, committed it, failed
\* later, and the rollback left the clean checkpoint.
C20_Witness ==
  /\ ForcedDirtyRunRolledBack
  /\ start.main_tree.local = "modified"
  /\ Has("main_amend")
  /\ main_tree = last_commit_id_before_release.tree
  /\ main_tree # start.main_tree

====
